---- MODULE Spec2Model ----
(***************************************************************************)
(* Model of the segregated-free-list allocator (mm.c) of CSAPP-Labs.       *)
(*                                                                         *)
(* Memory is the byte region managed by memlib, held as an array of 32-bit *)
(* little-endian words.  An address is a byte offset from the region base  *)
(* (mem_heap, 8-byte aligned); NULL is 0, which is never a block address   *)
(* because the first block pointer is at offset 72.                        *)
(* The C functions are operators on a heap record                          *)
(*    H = [mem, brk, hlp, reqs]                                            *)
(* (memory words, memlib's break, the global heap_listp, and the list of   *)
(* byte counts asked of mem_sbrk so far in the running call).              *)
(***************************************************************************)
EXTENDS Integers, Sequences, FiniteSets, TLC

\* ------------------------------------------------------------------ bounds
MaxHeap == 640        \* largest region capacity (bytes) memlib is given
MaxLive == 2          \* most allocations the client holds at one time
MaxCalls == 5         \* most calls the client makes after mm_init

\* region capacities tried: too small for the list heads, too small for the
\* first chunk, exactly the first chunk, and room for one more growth
HeapCaps == {64, 200, 328, MaxHeap}
\* request sizes the client passes to malloc: adjusted to the minimum block
\* (16), to 24, to 112, to 248 (a whole first chunk, no split) and to 312
\* (more than a chunk)
ReqSizes == {1, 16, 100, 240, 300}
\* sizes the client passes to realloc
ReallocSizes == {1, 100}
\* (nmemb, size) pairs the client passes to calloc
CallocArgs == {<<3, 3>>, <<2, 150>>}
\* initial content of every word of the region: memlib does not clear it,
\* so every byte starts as 0x55
InitWords == {1431655765}

\* --------------------------------------------------------------- constants
WSIZE == 4
DSIZE == 8
CLASS_CNT == 14
CHUNKSIZE == 256
NULL == 0
SBRK_FAIL == -1
\* the byte the client fills its allocations with (0x5A)
FILL == 90

VARIABLES
    mem,            \* memlib region: word index -> 32-bit word
    mem_brk,        \* memlib break (bytes handed out so far)
    mem_max_addr,   \* memlib region capacity in bytes
    heap_listp,     \* mm.c global
    phase,          \* "start" | "ready" | "initfailed" | "crashed"
    live,           \* client's live allocations: pointer -> requested bytes
    last,           \* record of the last public call
    reuse,          \* progress of a malloc(n); free(p); malloc(m) sequence
    scen,           \* progress of the calls made since mm_init through
                    \* a = malloc; b = malloc; free(a); c = malloc
    calls           \* number of calls made since mm_init

VARIABLES
    probe           \* one malloc argument and the adjusted size computed
                    \* for it: [size, done, asize]

VARIABLES
    cache,          \* proxy.c global: [time, cache_lines]
    thr             \* proxy threads: thread -> its position and locals

heapVars == <<mem, mem_brk, mem_max_addr, heap_listp, phase, live, last,
              reuse, scen, calls>>

\* the state outside the allocator and its driver
outside == <<probe, cache, thr>>

vars == <<heapVars, outside>>

Cur == [mem |-> mem, brk |-> mem_brk, hlp |-> heap_listp, reqs |-> <<>>]

MAX(x, y) == IF x > y THEN x ELSE y

\* ------------------------------------------------------------ word macros
\* (size | alloc) for alloc in {0, 1}
PACK(size, alloc) == (size - (size % 2)) + (IF size % 2 = 1 \/ alloc = 1 THEN 1 ELSE 0)

\* every word stored is a size or an offset below 2^31 (the region is at
\* most MaxHeap bytes), so the unsigned 32-bit store truncates nothing
GET(H, p) == H.mem[p \div 4]
PUT(H, p, val) == [H EXCEPT !.mem[p \div 4] = val]

GET_SIZE(H, p) == GET(H, p) - (GET(H, p) % 8)
GET_ALLOC(H, p) == GET(H, p) % 2

HDRP(bp) == bp - WSIZE
FTRP(H, bp) == bp + GET_SIZE(H, HDRP(bp)) - DSIZE

NEXT_BLKP(H, bp) == bp + GET_SIZE(H, bp - WSIZE)
PREV_BLKP(H, bp) == bp - GET_SIZE(H, bp - DSIZE)

ABS2REL(H, abs_bp) == IF abs_bp # NULL THEN abs_bp - H.hlp ELSE 0
REL2ABS(H, rel_bp) == IF rel_bp # 0 THEN H.hlp + rel_bp ELSE NULL

PREDP(bp) == bp
SUCCP(bp) == bp + WSIZE

GET_PRED(H, bp) == REL2ABS(H, GET(H, PREDP(bp)))
GET_SUCC(H, bp) == REL2ABS(H, GET(H, SUCCP(bp)))

GET_HEAD(H, headp) == REL2ABS(H, GET(H, headp))
SET_HEAD(H, headp, next) == PUT(H, headp, ABS2REL(H, next))

SET_PRED(H, bp, pred) == PUT(H, PREDP(bp), ABS2REL(H, pred))
SET_SUCC(H, bp, succ) == PUT(H, SUCCP(bp), ABS2REL(H, succ))

\* the statements PUT(HDRP(bp), val) and PUT(FTRP(bp), val); the footer is
\* located through the header word as it stands when the statement runs
PUT_HDRP(H, bp, val) == PUT(H, HDRP(bp), val)
PUT_FTRP(H, bp, val) == PUT(H, FTRP(H, bp), val)
\* PUT(HDRP(NEXT_BLKP(bp)), val) and PUT(FTRP(NEXT_BLKP(bp)), val)
PUT_HDRP_NEXT(H, bp, val) == PUT(H, HDRP(NEXT_BLKP(H, bp)), val)
PUT_FTRP_NEXT(H, bp, val) == PUT(H, FTRP(H, NEXT_BLKP(H, bp)), val)
\* PUT(heap_listp + off, val)
PUT_LISTP(H, off, val) == PUT(H, H.hlp + off, val)

\* ------------------------------------------------------------------ memlib
\* mem_sbrk: extend the break by incr bytes, or refuse when the region is
\* exhausted; returns the old break
mem_sbrk(H, incr) ==
    IF incr < 0 \/ H.brk + incr > mem_max_addr
    THEN [H |-> [H EXCEPT !.reqs = Append(@, incr)], ret |-> SBRK_FAIL]
    ELSE [H |-> [H EXCEPT !.brk = @ + incr, !.reqs = Append(@, incr)],
          ret |-> H.brk]

\* --------------------------------------------------------------- free lists
get_listp(H, size) ==
    LET class_id ==
            IF size <= 8 THEN 0
            ELSE IF size <= 16 THEN 1
            ELSE IF size <= 24 THEN 2
            ELSE IF size <= 32 THEN 3
            ELSE IF size <= 64 THEN 4
            ELSE IF size <= 128 THEN 5
            ELSE IF size <= 256 THEN 6
            ELSE IF size <= 512 THEN 7
            ELSE IF size <= 1024 THEN 8
            ELSE IF size <= 2048 THEN 9
            ELSE IF size <= 4096 THEN 10
            ELSE IF size <= 8192 THEN 11
            ELSE IF size <= 16384 THEN 12
            ELSE 13
    IN  H.hlp + (class_id - CLASS_CNT - 2) * WSIZE

\* the scan loop stopping at the first member that is not larger
RECURSIVE insert_scan_descending(_, _, _, _)
insert_scan_descending(H, size, pred, succ) ==
    IF succ # NULL /\ GET_SIZE(H, HDRP(succ)) > size
    THEN insert_scan_descending(H, size, succ, GET_SUCC(H, succ))
    ELSE <<pred, succ>>

\* the scan loop of insert_to_free_list: <<pred, succ>> when it stops
RECURSIVE insert_scan(_, _, _, _)
insert_scan(H, size, pred, succ) ==
    IF succ # NULL /\ GET_SIZE(H, HDRP(succ)) < size
    THEN insert_scan(H, size, succ, GET_SUCC(H, succ))
    ELSE <<pred, succ>>

\* the linking cases without the back link of the successor when the block
\* becomes the first member
insert_link_no_back(H, bp, headp, pred, succ) ==
    IF pred = headp /\ succ = NULL
    THEN SET_SUCC(SET_PRED(SET_HEAD(H, headp, bp), bp, NULL), bp, NULL)
    ELSE IF pred = headp /\ succ # NULL
    THEN SET_SUCC(SET_PRED(SET_HEAD(H, headp, bp), bp, NULL), bp, succ)
    ELSE IF pred # headp /\ succ = NULL
    THEN SET_SUCC(SET_PRED(SET_SUCC(H, pred, bp), bp, pred), bp, succ)
    ELSE SET_PRED(SET_SUCC(SET_PRED(SET_SUCC(H, pred, bp), bp, pred),
                           bp, succ), succ, bp)

\* the four linking cases of insert_to_free_list, once the scan has stopped
insert_link(H, bp, headp, pred, succ) ==
    IF pred = headp /\ succ = NULL
    THEN SET_SUCC(SET_PRED(SET_HEAD(H, headp, bp), bp, NULL), bp, NULL)
    ELSE IF pred = headp /\ succ # NULL
    THEN SET_PRED(SET_SUCC(SET_PRED(SET_HEAD(H, headp, bp), bp, NULL),
                           bp, succ), succ, bp)
    ELSE IF pred # headp /\ succ = NULL
    THEN SET_SUCC(SET_PRED(SET_SUCC(H, pred, bp), bp, pred), bp, succ)
    ELSE SET_PRED(SET_SUCC(SET_PRED(SET_SUCC(H, pred, bp), bp, pred),
                           bp, succ), succ, bp)

insert_to_free_list(H, bp) ==
    LET size  == GET_SIZE(H, HDRP(bp))
        headp == get_listp(H, size)
        ps    == insert_scan(H, size, headp, GET_HEAD(H, headp))
    IN  insert_link(H, bp, headp, ps[1], ps[2])

\* the four unlinking cases of remove_from_free_list
remove_link(H, headp, pred, succ) ==
    IF pred = NULL /\ succ = NULL
    THEN SET_HEAD(H, headp, NULL)
    ELSE IF pred = NULL /\ succ # NULL
    THEN SET_PRED(SET_HEAD(H, headp, succ), succ, NULL)
    ELSE IF pred # NULL /\ succ = NULL
    THEN SET_SUCC(H, pred, NULL)
    ELSE SET_PRED(SET_SUCC(H, pred, succ), succ, pred)

remove_from_free_list(H, bp) ==
    remove_link(H, get_listp(H, GET_SIZE(H, HDRP(bp))),
                GET_PRED(H, bp), GET_SUCC(H, bp))

\* ---------------------------------------------------------------- coalesce
\* case 2 with a slip: the merged size is one double word too large
coalesce_next_long(H, bp, size) ==
    LET sz == size + GET_SIZE(H, HDRP(NEXT_BLKP(H, bp))) + DSIZE
    IN  PUT_FTRP(PUT_HDRP(H, bp, PACK(sz, 0)), bp, PACK(sz, 0))

\* case 2, after the removals: the merged size goes to bp's header and footer
coalesce_next(H, bp, size) ==
    LET sz == size + GET_SIZE(H, HDRP(NEXT_BLKP(H, bp)))
    IN  PUT_FTRP(PUT_HDRP(H, bp, PACK(sz, 0)), bp, PACK(sz, 0))

\* case 3, after the removals: the merged size goes to the previous block's
\* header and to bp's footer
coalesce_prev(H, bp, size) ==
    LET sz == size + GET_SIZE(H, HDRP(PREV_BLKP(H, bp)))
    IN  PUT_FTRP(PUT_HDRP(H, PREV_BLKP(H, bp), PACK(sz, 0)), bp, PACK(sz, 0))

\* case 4 with a slip: the following block's size is left out of the merged
\* size
coalesce_both_short(H, bp, size) ==
    LET sz == size + GET_SIZE(H, HDRP(PREV_BLKP(H, bp)))
    IN  PUT_FTRP_NEXT(PUT_HDRP(H, PREV_BLKP(H, bp), PACK(sz, 0)), bp,
                      PACK(sz, 0))

\* case 4, after the removals: the merged size goes to the previous block's
\* header and to the following block's footer
coalesce_both(H, bp, size) ==
    LET sz == size + GET_SIZE(H, HDRP(PREV_BLKP(H, bp)))
                   + GET_SIZE(H, HDRP(NEXT_BLKP(H, bp)))
    IN  PUT_FTRP_NEXT(PUT_HDRP(H, PREV_BLKP(H, bp), PACK(sz, 0)), bp,
                      PACK(sz, 0))

\* bp = PREV_BLKP(bp); insert_to_free_list(bp); return bp
coalesce_to_prev(H, bp) ==
    [H |-> insert_to_free_list(H, PREV_BLKP(H, bp)), bp |-> PREV_BLKP(H, bp)]

\* returns [H, bp]
coalesce(H, bp) ==
    LET prev_alloc == GET_ALLOC(H, HDRP(PREV_BLKP(H, bp)))
        next_alloc == GET_ALLOC(H, HDRP(NEXT_BLKP(H, bp)))
        size       == GET_SIZE(H, HDRP(bp))
        prev_bp    == PREV_BLKP(H, bp)
        next_bp    == NEXT_BLKP(H, bp)
    IN  IF prev_alloc = 1 /\ next_alloc = 1
        THEN [H |-> H, bp |-> bp]
        ELSE IF prev_alloc = 1 /\ next_alloc = 0
        THEN [H |-> insert_to_free_list(
                        coalesce_next(
                            remove_from_free_list(
                                remove_from_free_list(H, bp), next_bp),
                            bp, size),
                        bp),
              bp |-> bp]
        ELSE IF prev_alloc = 0 /\ next_alloc = 1
        THEN coalesce_to_prev(
                 coalesce_prev(
                     remove_from_free_list(
                         remove_from_free_list(H, bp), prev_bp),
                     bp, size),
                 bp)
        ELSE coalesce_to_prev(
                 coalesce_both(
                     remove_from_free_list(
                         remove_from_free_list(
                             remove_from_free_list(H, prev_bp), bp), next_bp),
                     bp, size),
                 bp)

\* ------------------------------------------------------------- extend_heap
\* the new block without its footer
extend_heap_block_no_footer(H, bp, size) ==
    LET H1 == PUT_HDRP(H, bp, PACK(size, 0))
        H3 == SET_PRED(H1, bp, NULL)
        H4 == SET_SUCC(H3, bp, NULL)
        H5 == PUT_HDRP_NEXT(H4, bp, PACK(0, 1))
    IN  coalesce(insert_to_free_list(H5, bp), bp)

\* the new block without a new epilogue header
extend_heap_block_no_epilogue(H, bp, size) ==
    LET H1 == PUT_HDRP(H, bp, PACK(size, 0))
        H2 == PUT_FTRP(H1, bp, PACK(size, 0))
        H3 == SET_PRED(H2, bp, NULL)
        H4 == SET_SUCC(H3, bp, NULL)
    IN  coalesce(insert_to_free_list(H4, bp), bp)

\* the new block linked but not coalesced
extend_heap_block_no_coalesce(H, bp, size) ==
    LET H1 == PUT_HDRP(H, bp, PACK(size, 0))
        H2 == PUT_FTRP(H1, bp, PACK(size, 0))
        H3 == SET_PRED(H2, bp, NULL)
        H4 == SET_SUCC(H3, bp, NULL)
        H5 == PUT_HDRP_NEXT(H4, bp, PACK(0, 1))
    IN  [H |-> insert_to_free_list(H5, bp), bp |-> bp]

\* extend_heap once memlib has granted size bytes at bp: initialise the free
\* block and the new epilogue, link the block and coalesce it
extend_heap_block(H, bp, size) ==
    LET H1 == PUT_HDRP(H, bp, PACK(size, 0))
        H2 == PUT_FTRP(H1, bp, PACK(size, 0))
        H3 == SET_PRED(H2, bp, NULL)
        H4 == SET_SUCC(H3, bp, NULL)
        H5 == PUT_HDRP_NEXT(H4, bp, PACK(0, 1))
    IN  coalesce(insert_to_free_list(H5, bp), bp)

\* extend_heap that writes the new block's header at the break before it
\* looks at what memlib answered
extend_heap_early_header(r, size) ==
    IF r.ret = SBRK_FAIL
    THEN [H |-> PUT_HDRP(r.H, r.H.brk, PACK(size, 0)), bp |-> NULL]
    ELSE extend_heap_block(r.H, r.ret, size)

\* extend_heap after its mem_sbrk call answered r
extend_heap_sbrk(r, size) ==
    IF r.ret = SBRK_FAIL
    THEN [H |-> r.H, bp |-> NULL]
    ELSE extend_heap_block(r.H, r.ret, size)

\* words rounded up to an even number, in bytes
extend_heap_size(words) ==
    IF words % 2 = 1 THEN (words + 1) * WSIZE ELSE words * WSIZE

\* returns [H, bp]; bp = NULL when memlib refuses
extend_heap(H, words) ==
    extend_heap_sbrk(mem_sbrk(H, extend_heap_size(words)),
                     extend_heap_size(words))

\* ----------------------------------------------------------------- find_fit
\* the inner loop accepting only blocks strictly larger than asize
RECURSIVE find_in_list_strict(_, _, _)
find_in_list_strict(H, bp, asize) ==
    IF bp = NULL THEN NULL
    ELSE IF GET_SIZE(H, HDRP(bp)) > asize THEN bp
    ELSE find_in_list_strict(H, GET_SUCC(H, bp), asize)

\* the inner loop: first block of the list from bp on with size >= asize
RECURSIVE find_in_list(_, _, _)
find_in_list(H, bp, asize) ==
    IF bp = NULL THEN NULL
    ELSE IF GET_SIZE(H, HDRP(bp)) >= asize THEN bp
    ELSE find_in_list(H, GET_SUCC(H, bp), asize)

\* the outer loop stopping after the first class
find_from_one_class(H, headp, asize) ==
    find_in_list(H, GET_HEAD(H, headp), asize)

\* the outer loop over the class heads from headp up to list_headp_end
RECURSIVE find_from(_, _, _)
find_from(H, headp, asize) ==
    IF headp = H.hlp - (2 * WSIZE) THEN NULL
    ELSE LET bp == find_in_list(H, GET_HEAD(H, headp), asize)
         IN  IF bp # NULL THEN bp ELSE find_from(H, headp + WSIZE, asize)

\* find_fit that starts one class above the class of asize
find_fit_next_class(H, asize) ==
    find_from(H, get_listp(H, asize) + WSIZE, asize)

find_fit(H, asize) == find_from(H, get_listp(H, asize), asize)

\* -------------------------------------------------------------------- place
\* the remainder of a split block becomes a free block at free_bp
place_rest_no_insert(H, free_bp, rest) ==
    PUT_FTRP(PUT_HDRP(H, free_bp, PACK(rest, 0)), free_bp, PACK(rest, 0))

\* the remainder of a split block: a free block of rest bytes put in its list
place_rest(H, free_bp, rest) ==
    insert_to_free_list(
        PUT_FTRP(PUT_HDRP(H, free_bp, PACK(rest, 0)), free_bp, PACK(rest, 0)),
        free_bp)

\* place that splits as soon as one double word is left over
place_block_split_at_8(H, bp, asize, csize) ==
    IF csize - asize >= DSIZE
    THEN LET H3 == PUT_FTRP(PUT_HDRP(H, bp, PACK(asize, 1)), bp,
                            PACK(asize, 1))
         IN  place_rest(H3, NEXT_BLKP(H3, bp), csize - asize)
    ELSE PUT_FTRP(PUT_HDRP(H, bp, PACK(csize, 1)), bp, PACK(csize, 1))

\* place after the block of csize bytes has left its free list
place_block(H, bp, asize, csize) ==
    IF csize - asize >= 2 * DSIZE
    THEN LET H3 == PUT_FTRP(PUT_HDRP(H, bp, PACK(asize, 1)), bp,
                            PACK(asize, 1))
         IN  place_rest(H3, NEXT_BLKP(H3, bp), csize - asize)
    ELSE PUT_FTRP(PUT_HDRP(H, bp, PACK(csize, 1)), bp, PACK(csize, 1))

\* place that leaves the chosen block in its free list
place_no_remove(H, bp, asize) ==
    place_block(H, bp, asize, GET_SIZE(H, HDRP(bp)))

place(H, bp, asize) ==
    place_block(remove_from_free_list(H, bp), bp, asize,
                GET_SIZE(H, HDRP(bp)))

\* ------------------------------------------------------------------ mm_init
\* the head loop stopping one class early
RECURSIVE init_heads_short(_, _)
init_heads_short(H, class_id) ==
    IF class_id >= CLASS_CNT - 1 THEN H
    ELSE init_heads_short(SET_HEAD(H, H.hlp + class_id * WSIZE, NULL),
                          class_id + 1)

RECURSIVE init_heads(_, _)
init_heads(H, class_id) ==
    IF class_id >= CLASS_CNT THEN H
    ELSE init_heads(SET_HEAD(H, H.hlp + class_id * WSIZE, NULL), class_id + 1)

\* the empty heap: list heads, padding, prologue and epilogue
mm_init_layout(H) ==
    LET H1 == init_heads(H, 0)
        H2 == [H1 EXCEPT !.hlp = @ + CLASS_CNT * WSIZE]
        H3 == PUT_LISTP(H2, 0, 0)
        H4 == PUT_LISTP(H3, 1 * WSIZE, PACK(DSIZE, 1))
        H5 == PUT_LISTP(H4, 2 * WSIZE, PACK(DSIZE, 1))
        H6 == PUT_LISTP(H5, 3 * WSIZE, PACK(0, 1))
    IN  [H6 EXCEPT !.hlp = @ + (2 * WSIZE)]

\* mm_init after its extend_heap call answered e
mm_init_extend(e) ==
    [H |-> e.H, ret |-> IF e.bp = NULL THEN -1 ELSE 0]

\* mm_init after its mem_sbrk call answered r
mm_init_sbrk(r) ==
    IF r.ret = SBRK_FAIL
    THEN [H |-> [r.H EXCEPT !.hlp = r.ret], ret |-> -1]
    ELSE mm_init_extend(
             extend_heap(mm_init_layout([r.H EXCEPT !.hlp = r.ret]),
                         CHUNKSIZE \div WSIZE))

\* returns [H, ret]
mm_init(H) == mm_init_sbrk(mem_sbrk(H, (CLASS_CNT + 4) * WSIZE))

\* ------------------------------------------------------------------- malloc
\* the adjustment without the header and footer overhead
adjust_no_overhead(size) ==
    IF size <= DSIZE THEN 2 * DSIZE
    ELSE DSIZE * ((size + (DSIZE - 1)) \div DSIZE)

\* size_t values: a value below 2^(w-1) is held as itself and a value v at
\* or above it as v - 2^w, w being the width of size_t.  Sums of held values
\* are then the held values of the sums modulo 2^w, and
\* DSIZE * (x \div DSIZE) is x with its low three bits cleared, which is what
\* the unsigned quotient and product give since 8 divides 2^w.
\* x <= y for size_t values
ULE(x, y) == IF (x < 0) = (y < 0) THEN x <= y ELSE y < 0

\* the adjusted block size of a request of size bytes
adjust(size) ==
    IF ULE(size, DSIZE) THEN 2 * DSIZE
    ELSE DSIZE * ((size + DSIZE + (DSIZE - 1)) \div DSIZE)

\* malloc after no fit was found and extend_heap answered e
malloc_extend(e, asize) ==
    IF e.bp = NULL
    THEN [H |-> e.H, ret |-> NULL]
    ELSE [H |-> place(e.H, e.bp, asize), ret |-> e.bp]

\* malloc that grows the heap by just the adjusted size
malloc_fit_no_chunk(H, asize, bp) ==
    IF bp # NULL
    THEN [H |-> place(H, bp, asize), ret |-> bp]
    ELSE malloc_extend(extend_heap(H, asize \div WSIZE), asize)

\* malloc after find_fit answered bp
malloc_fit(H, asize, bp) ==
    IF bp # NULL
    THEN [H |-> place(H, bp, asize), ret |-> bp]
    ELSE malloc_extend(extend_heap(H, MAX(asize, CHUNKSIZE) \div WSIZE),
                       asize)

\* returns [H, ret]
malloc(H, size) ==
    IF size = 0 THEN [H |-> H, ret |-> NULL]
    ELSE malloc_fit(H, adjust(size), find_fit(H, adjust(size)))

\* --------------------------------------------------------------------- free
\* free that does not coalesce
free_block_no_coalesce(H, bp, size) ==
    LET H1 == PUT_HDRP(H, bp, PACK(size, 0))
        H2 == PUT_FTRP(H1, bp, PACK(size, 0))
        H3 == SET_PRED(H2, bp, NULL)
        H4 == SET_SUCC(H3, bp, NULL)
    IN  insert_to_free_list(H4, bp)

\* free of a block of size bytes: mark it free, link it, coalesce it
free_block(H, bp, size) ==
    LET H1 == PUT_HDRP(H, bp, PACK(size, 0))
        H2 == PUT_FTRP(H1, bp, PACK(size, 0))
        H3 == SET_PRED(H2, bp, NULL)
        H4 == SET_SUCC(H3, bp, NULL)
    IN  coalesce(insert_to_free_list(H4, bp), bp).H

free(H, bp) ==
    IF bp = NULL THEN H
    ELSE free_block(IF H.hlp = NULL THEN mm_init(H).H ELSE H, bp,
                    GET_SIZE(H, HDRP(bp)))

\* ------------------------------------------------------------ byte routines
Pow256(i) == IF i = 0 THEN 1 ELSE IF i = 1 THEN 256 ELSE IF i = 2 THEN 65536 ELSE 16777216

\* byte at address a (little-endian words)
GetByte(H, a) == (H.mem[a \div 4] \div Pow256(a % 4)) % 256

\* byte i of word w after the store: val[a] inside dst .. dst+len-1
StoredByte(H, dst, len, val, w, i) ==
    IF 4 * w + i >= dst /\ 4 * w + i < dst + len
    THEN val[4 * w + i] ELSE GetByte(H, 4 * w + i)

\* memory after storing byte val[a] at every address a of dst .. dst+len-1
StoreBytes(H, dst, len, val) ==
    [H EXCEPT !.mem =
        [w \in DOMAIN H.mem |->
            IF 4 * w + 3 < dst \/ 4 * w >= dst + len THEN H.mem[w]
            ELSE StoredByte(H, dst, len, val, w, 0)
                 + 256 * StoredByte(H, dst, len, val, w, 1)
                 + 65536 * StoredByte(H, dst, len, val, w, 2)
                 + 16777216 * StoredByte(H, dst, len, val, w, 3)]]

memcpy(H, dst, src, len) ==
    StoreBytes(H, dst, len,
               [a \in dst .. dst + len - 1 |-> GetByte(H, src + (a - dst))])

memset(H, dst, c, len) ==
    StoreBytes(H, dst, len, [a \in dst .. dst + len - 1 |-> c])

\* ------------------------------------------------------------------ realloc
\* the number of bytes realloc copies: the old block's size, cut to size
realloc_oldsize(H, oldptr, size) ==
    IF size < GET_SIZE(H, HDRP(oldptr)) THEN size
    ELSE GET_SIZE(H, HDRP(oldptr))

\* realloc that frees the old block before it copies from it
realloc_move_free_first(m, oldptr, size) ==
    IF m.ret = NULL
    THEN [H |-> m.H, ret |-> NULL]
    ELSE [H |-> memcpy(free(m.H, oldptr), m.ret, oldptr,
                       realloc_oldsize(m.H, oldptr, size)),
          ret |-> m.ret]

\* realloc that releases the old block also when its malloc failed
realloc_move_free_on_fail(m, oldptr, size) ==
    IF m.ret = NULL
    THEN [H |-> free(m.H, oldptr), ret |-> NULL]
    ELSE [H |-> free(memcpy(m.H, m.ret, oldptr,
                            realloc_oldsize(m.H, oldptr, size)),
                     oldptr),
          ret |-> m.ret]

\* realloc after its malloc call answered m
realloc_move(m, oldptr, size) ==
    IF m.ret = NULL
    THEN [H |-> m.H, ret |-> NULL]
    ELSE [H |-> free(memcpy(m.H, m.ret, oldptr,
                            realloc_oldsize(m.H, oldptr, size)),
                     oldptr),
          ret |-> m.ret]

\* realloc that returns NULL for size 0 without releasing the block
realloc_zero_keeps(H, oldptr, size) ==
    IF size = 0 THEN [H |-> H, ret |-> NULL]
    ELSE IF oldptr = NULL THEN malloc(H, size)
    ELSE realloc_move(malloc(H, size), oldptr, size)

\* returns [H, ret]
realloc(H, oldptr, size) ==
    IF size = 0 THEN [H |-> free(H, oldptr), ret |-> NULL]
    ELSE IF oldptr = NULL THEN malloc(H, size)
    ELSE realloc_move(malloc(H, size), oldptr, size)

\* ------------------------------------------------------------------- calloc
\* calloc after its malloc call answered m
calloc_clear(m, bytes) ==
    IF m.ret = NULL
    THEN [H |-> m.H, ret |-> m.ret, fault |-> bytes > 0]
    ELSE [H |-> memset(m.H, m.ret, 0, bytes), ret |-> m.ret, fault |-> FALSE]

\* calloc that clears only nmemb bytes
calloc_count_only(H, nmemb, size) ==
    calloc_clear(malloc(H, nmemb * size), nmemb)

\* returns [H, ret, fault]; fault: memset was handed the null pointer with a
\* nonzero length
calloc(H, nmemb, size) == calloc_clear(malloc(H, nmemb * size), nmemb * size)

\* ------------------------------------------------------------- mm_checkheap
\* the block walk of mm_checkheap, starting at block pointer bp: the block
\* pointers met before the zero-size header; ok is FALSE when the walk leaves
\* the bytes handed out by memlib
RECURSIVE walk(_, _, _)
walk(H, bp, acc) ==
    IF bp - WSIZE < 0 \/ bp > H.brk
    THEN [ok |-> FALSE, blocks |-> acc, end |-> bp]
    ELSE IF GET_SIZE(H, HDRP(bp)) = 0
    THEN [ok |-> TRUE, blocks |-> acc, end |-> bp]
    ELSE walk(H, NEXT_BLKP(H, bp), Append(acc, bp))

\* address of the head word of class c (0 .. CLASS_CNT-1)
HeadOf(H, c) == H.hlp + (c - CLASS_CNT - 2) * WSIZE

\* the list walk of mm_checkheap: members met following successor links
RECURSIVE list_walk(_, _, _)
list_walk(H, bp, acc) ==
    IF bp = NULL THEN [ok |-> TRUE, members |-> acc]
    ELSE IF bp < DSIZE \/ bp + DSIZE > H.brk \/ Len(acc) > H.brk \div DSIZE
    THEN [ok |-> FALSE, members |-> acc]
    ELSE list_walk(H, GET_SUCC(H, bp), Append(acc, bp))

\* one round of the class loop of mm_checkheap: the blocks printed for a
\* class whose first member is head.  The inner variable bp is declared as
\* char *bp = GET_SUCC(bp), so the walk starts from the successor field of
\* whatever the uninitialised bp holds (g); crash: the read or the walk
\* leaves the heap
check_list(H, head, g) ==
    IF head = NULL THEN [crash |-> FALSE, seen |-> <<>>]
    ELSE IF g < DSIZE \/ g + DSIZE > H.brk
    THEN [crash |-> TRUE, seen |-> <<head>>]
    ELSE [crash |-> ~ list_walk(H, GET_SUCC(H, g), <<head>>).ok,
          seen  |-> list_walk(H, GET_SUCC(H, g), <<head>>).members]

\* the class loop from class i on; lists: what was printed per class so far
RECURSIVE check_classes(_, _, _, _)
check_classes(H, g, i, lists) ==
    IF i >= CLASS_CNT THEN [crash |-> FALSE, lists |-> lists]
    ELSE IF check_list(H, GET_HEAD(H, HeadOf(H, i)), g).crash
    THEN [crash |-> TRUE,
          lists |-> Append(lists, check_list(H, GET_HEAD(H, HeadOf(H, i)), g).seen)]
    ELSE check_classes(H, g, i + 1,
             Append(lists, check_list(H, GET_HEAD(H, HeadOf(H, i)), g).seen))

\* returns [blocks, lists, crash]: the blocks printed by the chain loop, the
\* blocks printed per class, and whether the process died on the way
mm_checkheap(H, g) ==
    [blocks |-> walk(H, H.hlp, <<>>).blocks,
     lists  |-> check_classes(H, g, 0, <<>>).lists,
     crash  |-> check_classes(H, g, 0, <<>>).crash]

\* ============================================================= state machine
NoCall == [op |-> "none", a |-> 0, p |-> NULL, ret |-> NULL, reqs |-> <<>>,
           out |-> <<>>]
NoReuse == [stage |-> "none", p |-> NULL, n |-> 0]
Call(op, a, p, ret, reqs) ==
    [op |-> op, a |-> a, p |-> p, ret |-> ret, reqs |-> reqs, out |-> <<>>]

\* the scenario a = malloc(n); b = malloc(n); free(a); c = malloc(n) run
\* right after mm_init: stage counts the calls that matched so far, -1 once
\* a call did not match; grew: some call of the scenario asked memlib
\* for memory
NoScen == [stage |-> 0, n |-> 0, a |-> NULL, b |-> NULL, c |-> NULL,
           grew |-> FALSE]
OffScen == [NoScen EXCEPT !.stage = -1]
ScenMalloc(sc, n, ret, reqs) ==
    IF sc.stage = 0
    THEN [sc EXCEPT !.stage = 1, !.n = n, !.a = ret, !.grew = reqs # <<>>]
    ELSE IF sc.stage = 1 /\ n = sc.n
    THEN [sc EXCEPT !.stage = 2, !.b = ret, !.grew = @ \/ reqs # <<>>]
    ELSE IF sc.stage = 3 /\ n = sc.n
    THEN [sc EXCEPT !.stage = 4, !.c = ret, !.grew = @ \/ reqs # <<>>]
    ELSE OffScen
ScenFree(sc, p, reqs) ==
    IF sc.stage = 2 /\ p = sc.a
    THEN [sc EXCEPT !.stage = 3, !.grew = @ \/ reqs # <<>>]
    ELSE OffScen

Hold(f, p, n) == [x \in DOMAIN f \cup {p} |-> IF x = p THEN n ELSE f[x]]
Drop(f, p) == [x \in DOMAIN f \ {p} |-> f[x]]

\* install the heap record H as the next state of memlib and mm.c
Install(H) ==
    /\ mem' = H.mem
    /\ mem_brk' = H.brk
    /\ heap_listp' = H.hlp

\* ------------------------------------------------------------ proxy cache
\* lines of the cache (10 in cache.h)
MAX_OBJECT_CNT == 2
\* proxy threads running at a time
NTHREADS == 2
\* connections each thread serves
MaxReqs == 2
\* distinct uris requested
NURIS == 2

INT_MAX == 2147483647

Lines == 0 .. MAX_OBJECT_CNT - 1
Threads == 1 .. NTHREADS
Uris == 1 .. NURIS

\* cache_init: every line invalid and unused, every semaphore 1; uri and
\* content are the zero bytes of the global (0 stands for the empty string)
cache_init ==
    [time |-> 0,
     cache_lines |->
        [l \in Lines |->
            [valid |-> 0, last_used_time |-> 0, readcnt |-> 0,
             mutex_access |-> 1, mutex_readcnt |-> 1,
             uri |-> 0, content |-> 0]]]

\* a thread between connections with n connections still to serve
Idle(n) ==
    [pc |-> "idle", fn |-> "none", uri |-> 0, i |-> 0, hit |-> FALSE,
     evict_id |-> -1, min_last_used_time |-> INT_MAX, tmp |-> 0,
     left |-> n, served |-> <<>>]

\* the proxy before main has accepted a connection
ProxyIdle ==
    /\ cache = cache_init
    /\ thr = [t \in Threads |-> Idle(0)]

\* no malloc argument under study
NoProbe == [size |-> 0, done |-> FALSE, asize |-> 0]

Init ==
    /\ mem_max_addr \in HeapCaps
    /\ \E w \in InitWords : mem = [i \in 0 .. (mem_max_addr \div 4) - 1 |-> w]
    /\ mem_brk = 0
    /\ heap_listp = NULL
    /\ phase = "start"
    /\ live = [x \in {} |-> 0]
    /\ last = NoCall
    /\ reuse = NoReuse
    /\ scen = NoScen
    /\ calls = 0
    /\ probe = NoProbe
    /\ ProxyIdle

Ready == phase = "ready" /\ calls < MaxCalls

\* the state after mm_init answered r
MmInitReturns(r) ==
    /\ Install(r.H)
    /\ phase' = IF r.ret = 0 THEN "ready" ELSE "initfailed"
    /\ last' = Call("mm_init", 0, NULL, r.ret, r.H.reqs)

\* the driver calls mm_init once on the empty region before any other call
MmInit ==
    /\ phase = "start"
    /\ MmInitReturns(mm_init(Cur))
    /\ UNCHANGED <<mem_max_addr, live, reuse, scen, calls>>
    /\ UNCHANGED outside

\* the driver starts over: it empties the region (mem_reset_brk puts the
\* break back at the region base; the words keep their content) and calls
\* mm_init again; the client's pointers are gone
Restart ==
    /\ phase \in {"ready", "initfailed"}
    /\ calls < MaxCalls
    /\ MmInitReturns(mm_init([Cur EXCEPT !.brk = 0]))
    /\ live' = [x \in {} |-> 0]
    /\ reuse' = NoReuse
    /\ scen' = NoScen
    /\ calls' = calls + 1
    /\ UNCHANGED mem_max_addr
    /\ UNCHANGED outside

\* the state after malloc(n) answered r
MallocReturns(n, r) ==
    /\ Install(r.H)
    /\ live' = IF r.ret # NULL THEN Hold(live, r.ret, n) ELSE live
    /\ last' = Call("malloc", n, NULL, r.ret, r.H.reqs)
    /\ scen' = ScenMalloc(scen, n, r.ret, r.H.reqs)

Malloc(n) ==
    /\ Ready
    /\ Cardinality(DOMAIN live) < MaxLive
    /\ MallocReturns(n, malloc(Cur, n))
    /\ reuse' = IF reuse.stage = "freed"
                THEN [reuse EXCEPT !.stage = "again"]
                ELSE NoReuse
    /\ UNCHANGED <<mem_max_addr, phase>>
    /\ UNCHANGED outside
    /\ calls' = calls + 1

\* the state after free(p) left the heap H
FreeReturns(p, H) ==
    /\ Install(H)
    /\ live' = Drop(live, p)
    /\ last' = Call("free", 0, p, NULL, H.reqs)
    /\ scen' = ScenFree(scen, p, H.reqs)

Free(p) ==
    /\ Ready
    /\ FreeReturns(p, free(Cur, p))
    /\ reuse' = IF p # NULL /\ last.op = "malloc" /\ last.ret = p
                THEN [stage |-> "freed", p |-> p, n |-> last.a]
                ELSE NoReuse
    /\ UNCHANGED <<mem_max_addr, phase>>
    /\ UNCHANGED outside
    /\ calls' = calls + 1

\* the state after realloc(p, size) answered r
ReallocReturns(p, size, r) ==
    /\ Install(r.H)
    /\ live' = IF size = 0 THEN Drop(live, p)
               ELSE IF r.ret = NULL THEN live
               ELSE Hold(Drop(live, p), r.ret, size)
    /\ last' = Call("realloc", size, p, r.ret, r.H.reqs)

Realloc(p, size) ==
    /\ Ready
    /\ p = NULL /\ size # 0 => Cardinality(DOMAIN live) < MaxLive
    /\ ReallocReturns(p, size, realloc(Cur, p, size))
    /\ reuse' = NoReuse
    /\ scen' = OffScen
    /\ UNCHANGED <<mem_max_addr, phase>>
    /\ UNCHANGED outside
    /\ calls' = calls + 1

\* the state after calloc answered r for bytes bytes
\* memset(NULL, 0, bytes) with bytes > 0 is undefined: the store to address 0
\* either kills the process or lands outside the region and calloc returns
CallocReturns(bytes, r) ==
    /\ Install(r.H)
    /\ live' = IF r.ret # NULL THEN Hold(live, r.ret, bytes) ELSE live
    /\ last' = Call("calloc", bytes, NULL, r.ret, r.H.reqs)
    /\ IF r.fault
       THEN phase' \in {"crashed", "ready"}
       ELSE phase' = phase

Calloc(nmemb, size) ==
    /\ Ready
    /\ Cardinality(DOMAIN live) < MaxLive
    /\ CallocReturns(nmemb * size, calloc(Cur, nmemb, size))
    /\ reuse' = NoReuse
    /\ scen' = OffScen
    /\ calls' = calls + 1
    /\ UNCHANGED mem_max_addr
    /\ UNCHANGED outside

\* the client stores FILL in every byte it asked for
UserWrite(p) ==
    /\ Ready
    /\ Install(memset(Cur, p, FILL, live[p]))
    /\ last' = Call("write", live[p], p, NULL, <<>>)
    /\ reuse' = NoReuse
    /\ scen' = OffScen
    /\ calls' = calls + 1
    /\ UNCHANGED <<mem_max_addr, phase, live>>
    /\ UNCHANGED outside

\* the values the uninitialised bp of mm_checkheap may hold: no usable
\* address (NULL stands for every address outside the heap) or the address
\* of any block
Indeterminate(H) == {NULL} \cup {walk(H, H.hlp, <<>>).blocks[i] :
                                  i \in 1 .. Len(walk(H, H.hlp, <<>>).blocks)}

\* the state after mm_checkheap printed r
CheckHeapReturns(g, r) ==
    /\ last' = [Call("mm_checkheap", 0, g, NULL, <<>>) EXCEPT
                    !.out = [blocks |-> r.blocks, lists |-> r.lists]]
    /\ phase' = IF r.crash THEN "crashed" ELSE phase

\* the client calls mm_checkheap
CheckHeap ==
    /\ Ready
    /\ \E g \in Indeterminate(Cur) : CheckHeapReturns(g, mm_checkheap(Cur, g))
    /\ reuse' = NoReuse
    /\ scen' = OffScen
    /\ calls' = calls + 1
    /\ UNCHANGED <<mem, mem_brk, mem_max_addr, heap_listp, live>>
    /\ UNCHANGED outside

Next ==
    \/ MmInit
    \/ Restart
    \/ \E n \in ReqSizes : Malloc(n)
    \/ \E p \in DOMAIN live : Free(p)
    \/ \E p \in DOMAIN live \cup {NULL}, size \in ReallocSizes \cup {0} :
          Realloc(p, size)
    \/ \E c \in CallocArgs : Calloc(c[1], c[2])
    \/ \E p \in DOMAIN live : UserWrite(p)
    \/ CheckHeap

Spec == Init /\ [][Next]_vars

TypeOK ==
    /\ mem_brk \in 0 .. mem_max_addr
    /\ phase \in {"start", "ready", "initfailed", "crashed"}

\* ==================================================== reading the heap state
\* mm.c state exists once mm_init has succeeded (a crashed process leaves the
\* region as the last completed call left it)
HeapUp == phase \in {"ready", "crashed"}

\* the chain from the prologue (blocks[1]) to the epilogue (end)
Chain(H) == walk(H, H.hlp, <<>>)

\* block pointers strictly between prologue and epilogue
Inner(H) == LET ch == Chain(H).blocks IN {ch[i] : i \in 2 .. Len(ch)}

IsFree(H, bp) == GET_ALLOC(H, HDRP(bp)) = 0
FreeBlocks(H) == {bp \in Inner(H) : IsFree(H, bp)}

ClassList(H, c) == list_walk(H, GET_HEAD(H, HeadOf(H, c)), <<>>)

Classes == 0 .. CLASS_CNT - 1

\* the members of every class list, by class
Lists(H) == [c \in Classes |-> ClassList(H, c)]

\* word indexes holding allocator metadata: class heads, padding, every
\* header and footer, the epilogue header, the link words of free blocks
Metadata(H) ==
    LET ch == Chain(H)
        FB == {ch.blocks[i] : i \in {j \in 2 .. Len(ch.blocks) : IsFree(H, ch.blocks[j])}}
    IN
    {HeadOf(H, c) \div 4 : c \in Classes}
    \cup {(H.hlp - DSIZE) \div 4, HDRP(ch.end) \div 4}
    \cup {HDRP(ch.blocks[i]) \div 4 : i \in 1 .. Len(ch.blocks)}
    \cup {FTRP(H, ch.blocks[i]) \div 4 : i \in 1 .. Len(ch.blocks)}
    \cup {PREDP(bp) \div 4 : bp \in FB}
    \cup {SUCCP(bp) \div 4 : bp \in FB}

\* ==================================================================== claims

\* C1: after mm_init and after every malloc, free, realloc or calloc, no two
\* physically adjacent blocks between prologue and epilogue are both free.
C1_NoAdjacentFree ==
    HeapUp =>
        LET ch == Chain(Cur) IN
        /\ ch.ok
        /\ \A i \in 2 .. Len(ch.blocks) - 1 :
              ~ (IsFree(Cur, ch.blocks[i]) /\ IsFree(Cur, ch.blocks[i + 1]))

\* a free call has just merged the freed block with a free neighbour
C1_Witness ==
    /\ phase = "ready"
    /\ last.op = "free" /\ last.p # NULL
    /\ last.p \notin Inner(Cur)
    /\ Cardinality(FreeBlocks(Cur)) >= 2

\* C2: the blocks reachable from the 14 class heads are exactly the free
\* blocks: each free block occurs once, in the list get_listp selects for its
\* size, and no allocated block is in a list.
C2_ListsAreFreeBlocks ==
    HeapUp =>
        LET L  == Lists(Cur)
            FB == FreeBlocks(Cur)
        IN  /\ Chain(Cur).ok
            /\ \A c \in Classes :
                  /\ L[c].ok
                  /\ \A i \in 1 .. Len(L[c].members) :
                        LET bp == L[c].members[i] IN
                        /\ bp \in FB
                        /\ HeadOf(Cur, c) = get_listp(Cur, GET_SIZE(Cur, HDRP(bp)))
                        /\ \A j \in 1 .. Len(L[c].members) :
                              L[c].members[j] = bp => j = i
            /\ \A bp \in FB :
                  \E c \in Classes : \E i \in 1 .. Len(L[c].members) :
                      L[c].members[i] = bp

\* two class lists are occupied while allocations are live
C2_Witness ==
    /\ phase = "ready"
    /\ Cardinality({c \in Classes : GET_HEAD(Cur, HeadOf(Cur, c)) # NULL}) >= 2
    /\ DOMAIN live # {}

\* C3: every block of the chain from the prologue to the epilogue has a
\* footer word equal to its header word.
C3_FooterEqualsHeader ==
    HeapUp =>
        LET ch == Chain(Cur) IN
        /\ ch.ok
        /\ \A i \in 1 .. Len(ch.blocks) :
              /\ FTRP(Cur, ch.blocks[i]) + WSIZE <= mem_brk
              /\ GET(Cur, FTRP(Cur, ch.blocks[i])) = GET(Cur, HDRP(ch.blocks[i]))

\* a block split by place, another freed and merged, the heap grown
C3_Witness ==
    /\ phase = "ready"
    /\ mem_brk > (CLASS_CNT + 4) * WSIZE + CHUNKSIZE
    /\ DOMAIN live # {}
    /\ FreeBlocks(Cur) # {}

\* the sum of the sizes of the blocks in a set
RECURSIVE SumSizes(_, _)
SumSizes(H, S) ==
    IF S = {} THEN 0
    ELSE LET bp == CHOOSE x \in S : TRUE
         IN  GET_SIZE(H, HDRP(bp)) + SumSizes(H, S \ {bp})

\* C4: the chain tiles the heap: it starts with the allocated 8-byte
\* prologue, ends at a zero-size allocated epilogue header in the last word
\* handed out, and block sizes plus 72 bytes of overhead give the heap size.
C4_ChainTilesHeap ==
    HeapUp =>
        LET ch == Chain(Cur) IN
        /\ ch.ok
        /\ Len(ch.blocks) >= 1
        /\ ch.blocks[1] = heap_listp
        /\ GET(Cur, HDRP(heap_listp)) = PACK(DSIZE, 1)
        /\ GET(Cur, HDRP(ch.end)) = PACK(0, 1)
        /\ HDRP(ch.end) = mem_brk - WSIZE
        /\ SumSizes(Cur, Inner(Cur)) + 72 = mem_brk

\* the heap has grown beyond its first chunk and holds several blocks
C4_Witness ==
    /\ phase = "ready"
    /\ mem_brk > (CLASS_CNT + 4) * WSIZE + CHUNKSIZE
    /\ Cardinality(Inner(Cur)) >= 3

\* C5: every block between prologue and epilogue has a size that is a
\* multiple of 8 and at least 16.
C5_BlockSizes ==
    HeapUp =>
        /\ Chain(Cur).ok
        /\ \A bp \in Inner(Cur) :
              /\ GET(Cur, HDRP(bp)) % 8 \in {0, 1}
              /\ GET_SIZE(Cur, HDRP(bp)) >= 2 * DSIZE

\* a 16-byte block exists next to a free remainder left by a split
C5_Witness ==
    /\ phase = "ready"
    /\ \E bp \in Inner(Cur) : GET_SIZE(Cur, HDRP(bp)) = 2 * DSIZE
    /\ \E bp \in FreeBlocks(Cur) : GET_SIZE(Cur, HDRP(bp)) < CHUNKSIZE

\* word indexes overlapping the n bytes at p
WordsOf(p, n) == {w \in (p \div 4) .. ((p + n - 1) \div 4) : n > 0}

C7_FailedMallocNoMutation ==
    [][(last'.op = "malloc" /\ last'.ret = NULL /\ calls' = calls + 1)
        => /\ find_fit(Cur, adjust(last'.a)) = NULL
           /\ last'.reqs # <<>>
           /\ mem' = mem
           /\ mem_brk' = mem_brk
           /\ heap_listp' = heap_listp]_vars

\* malloc has just failed on a refused growth request while blocks are live
C7_Witness ==
    /\ last.op = "malloc" /\ last.ret = NULL /\ last.a > 0
    /\ Len(last.reqs) = 1
    /\ DOMAIN live # {}
    /\ FreeBlocks(Cur) # {}

\* the block physically before / after bp
PrevOf(H, bp) == PREV_BLKP(H, bp)
NextOf(H, bp) == NEXT_BLKP(H, bp)

\* C8: free(p) of a live block B of size s leaves B's bytes in one free block
\* of size s + (size of the preceding block if free) + (size of the following
\* block if free), starting at the preceding block if that was free and at B
\* otherwise; it is the only list entry within the merged bytes and sits in
\* the class list of the merged size.
C8_FreeMerges ==
    [][(last'.op = "free" /\ last'.p # NULL /\ calls' = calls + 1) =>
        LET p     == last'.p
            s     == GET_SIZE(Cur, HDRP(p))
            prevF == IsFree(Cur, PrevOf(Cur, p))
            nextF == IsFree(Cur, NextOf(Cur, p))
            start == IF prevF THEN PrevOf(Cur, p) ELSE p
            total == s + (IF prevF THEN GET_SIZE(Cur, HDRP(PrevOf(Cur, p))) ELSE 0)
                       + (IF nextF THEN GET_SIZE(Cur, HDRP(NextOf(Cur, p))) ELSE 0)
            L     == Lists(Cur')
            C     == CHOOSE c \in Classes :
                        HeadOf(Cur', c) = get_listp(Cur', total)
        IN  /\ start \in FreeBlocks(Cur')
            /\ GET_SIZE(Cur', HDRP(start)) = total
            /\ GET(Cur', FTRP(Cur', start)) = PACK(total, 0)
            /\ \A c \in Classes : \A i \in 1 .. Len(L[c].members) :
                  LET bp == L[c].members[i] IN
                  (bp >= start /\ bp < start + total) => (bp = start /\ c = C)
            /\ Cardinality({i \in 1 .. Len(L[C].members) :
                               L[C].members[i] = start}) = 1]_vars

\* free has just merged the freed block with both of its neighbours
C8_Witness ==
    /\ last.op = "free" /\ last.p # NULL
    /\ \E bp \in FreeBlocks(Cur) :
          /\ bp < last.p
          /\ last.p + 2 * DSIZE < bp + GET_SIZE(Cur, HDRP(bp))
          /\ DOMAIN live # {}

\* C9: if p = malloc(n) succeeds and free(p) is immediately followed by
\* malloc(m) with 0 < m <= n, that malloc succeeds without any growth
\* request.
C9_ReuseWithoutGrowth ==
    (reuse.stage = "again" /\ last.a > 0 /\ last.a <= reuse.n) =>
        /\ last.op = "malloc"
        /\ last.ret # NULL
        /\ last.reqs = <<>>

\* the sequence has run with m < n while another allocation is live
C9_Witness ==
    /\ reuse.stage = "again"
    /\ last.a > 0 /\ last.a < reuse.n
    /\ last.ret # NULL
    /\ Cardinality(DOMAIN live) >= 2

\* C10 as stated: if p = malloc(n) succeeds and free(p) is immediately
\* followed by q = malloc(m) with 0 < m <= n, then q = p.
C10_ReuseSameBlock ==
    (reuse.stage = "again" /\ last.a > 0 /\ last.a <= reuse.n) =>
        last.ret = reuse.p

\* C10 amended: in that sequence q = p provided that, when malloc(m) is
\* called, no free block has a size s with adjust(m) <= s < adjust(n) (in
\* particular whenever m and n adjust to the same block size); otherwise
\* find_fit may return such a smaller block instead.
C10_ReuseSameBlockIfNoSmallerFit ==
    [][(/\ reuse.stage = "freed" /\ reuse'.stage = "again"
        /\ last'.a > 0 /\ last'.a <= reuse.n
        /\ \A bp \in FreeBlocks(Cur) :
              ~ (/\ adjust(last'.a) <= GET_SIZE(Cur, HDRP(bp))
                 /\ GET_SIZE(Cur, HDRP(bp)) < adjust(reuse.n)))
        => last'.ret = reuse.p]_vars

\* the sequence has run with m < n and returned the freed block although
\* another free block existed
C10_Witness ==
    /\ reuse.stage = "again"
    /\ last.a > 0 /\ last.a < reuse.n
    /\ last.ret = reuse.p
    /\ \E bp \in FreeBlocks(Cur) : bp < reuse.p

\* C11: right after mm_init, a = malloc(16); b = malloc(16); free(a);
\* c = malloc(16) gives c = a (a real block, distinct from b), and none of
\* the four calls asks memlib for memory.
C11_ScenarioReusesFirstBlock ==
    (scen.stage = 4 /\ scen.n = 16) =>
        /\ scen.c = scen.a
        /\ scen.a # NULL /\ scen.b # NULL /\ scen.a # scen.b
        /\ ~ scen.grew

\* the four calls of the scenario have run with n = 16 while b is still held
C11_Witness ==
    /\ scen.stage = 4 /\ scen.n = 16
    /\ last.op = "malloc" /\ last.ret = scen.a
    /\ DOMAIN live = {scen.a, scen.b}

Min(x, y) == IF x < y THEN x ELSE y

\* C13: a successful q = realloc(p, size), size > 0, of a live allocation p
\* of n requested bytes leaves in the first Min(n, size) bytes at q the bytes
\* that were at p before the call; q's block is an allocated block of the
\* chain that shares no byte with p's old block, and the bytes of p's old
\* block lie in a free block afterwards.
C13_ReallocCopies ==
    [][(/\ last'.op = "realloc" /\ calls' = calls + 1
        /\ last'.p # NULL /\ last'.a > 0 /\ last'.ret # NULL) =>
        LET p == last'.p
            q == last'.ret
            n == live[p]
            s == GET_SIZE(Cur, HDRP(p))
        IN  /\ \A i \in 0 .. Min(n, last'.a) - 1 :
                  GetByte(Cur', q + i) = GetByte(Cur, p + i)
            /\ q # p
            /\ q \in Inner(Cur') /\ ~ IsFree(Cur', q)
            /\ q \in DOMAIN live'
            /\ (q + GET_SIZE(Cur', HDRP(q)) <= p \/ q >= p + s)
            /\ \E bp \in FreeBlocks(Cur') :
                  bp <= p /\ p + s <= bp + GET_SIZE(Cur', HDRP(bp))]_vars

\* the client allocated 100 bytes, filled them, and realloc has just moved
\* them to a new block that starts with the fill byte
C13_Witness ==
    /\ last.op = "realloc" /\ last.p # NULL /\ last.ret # NULL
    /\ last.a = 100 /\ calls = 3
    /\ \A i \in 0 .. 99 : GetByte(Cur, last.ret + i) = FILL
    /\ IsFree(Cur, last.p)

\* the number of bytes a successful realloc(p, size) hands to memcpy: the
\* old size is read after the internal malloc has run
CopyLen(p, size) == realloc_oldsize(malloc(Cur, size).H, p, size)

\* C14: a successful realloc(p, size) with p # NULL and size > 0 copies
\* exactly Min(old block size - 8, size) bytes, so that the last byte read
\* lies before the old block's footer.
C14_CopiesOnlyPayload ==
    [][(/\ last'.op = "realloc" /\ calls' = calls + 1
        /\ last'.p # NULL /\ last'.a > 0 /\ last'.ret # NULL) =>
        LET p == last'.p
            s == GET_SIZE(Cur, HDRP(p))
        IN  /\ CopyLen(p, last'.a) = Min(s - DSIZE, last'.a)
            /\ p + CopyLen(p, last'.a) <= FTRP(Cur, p)]_vars

\* C15: when realloc(p, size), with p live and size > 0, fails because
\* memlib refused the growth request of its malloc, it returns NULL, p's
\* block is still allocated with the same size, and no word of the heap, the
\* break or heap_listp has changed; the client still holds p.
C15_FailedReallocNoMutation ==
    [][(/\ last'.op = "realloc" /\ calls' = calls + 1
        /\ last'.p # NULL /\ last'.a > 0 /\ last'.ret = NULL) =>
        LET p == last'.p
        IN  /\ last'.reqs # <<>>
            /\ GET_ALLOC(Cur', HDRP(p)) = 1
            /\ GET_SIZE(Cur', HDRP(p)) = GET_SIZE(Cur, HDRP(p))
            /\ \A i \in 0 .. live[p] - 1 :
                  GetByte(Cur', p + i) = GetByte(Cur, p + i)
            /\ mem' = mem
            /\ mem_brk' = mem_brk
            /\ heap_listp' = heap_listp
            /\ live' = live]_vars

\* realloc of a live allocation has just failed on a refused growth request
C15_Witness ==
    /\ last.op = "realloc" /\ last.p # NULL /\ last.a > 0
    /\ last.ret = NULL
    /\ Len(last.reqs) = 1
    /\ last.p \in DOMAIN live
    /\ GET_ALLOC(Cur, HDRP(last.p)) = 1

\* C16: when the malloc inside calloc(count, size), count * size > 0, fails,
\* calloc hands no null pointer to memset, returns NULL with the process
\* still running, and leaves the heap, the break and heap_listp as they
\* were.
C16_FailedCallocNoWrite ==
    [][(/\ last'.op = "calloc" /\ calls' = calls + 1
        /\ last'.a > 0 /\ last'.ret = NULL) =>
        /\ ~ calloc_clear(malloc(Cur, last'.a), last'.a).fault
        /\ phase' = "ready"
        /\ mem' = mem
        /\ mem_brk' = mem_brk
        /\ heap_listp' = heap_listp]_vars

\* C17: a successful calloc(count, size) with b = count * size > 0 returns
\* an allocated block of the chain, held by the client, with at least b
\* payload bytes, whose first b bytes are 0; every word outside that block's
\* payload is as the internal malloc(b) left it.
C17_CallocZeroFills ==
    [][(/\ last'.op = "calloc" /\ calls' = calls + 1
        /\ last'.a > 0 /\ last'.ret # NULL) =>
        LET q == last'.ret
            b == last'.a
            M == malloc(Cur, b).H
            payload == GET_SIZE(Cur', HDRP(q)) - DSIZE
        IN  /\ q \in Inner(Cur') /\ ~ IsFree(Cur', q)
            /\ q \in DOMAIN live'
            /\ payload >= b
            /\ \A i \in 0 .. b - 1 : GetByte(Cur', q + i) = 0
            /\ \A w \in DOMAIN mem :
                  (4 * w < q \/ 4 * w >= q + payload) => mem'[w] = M.mem[w]
            /\ mem_brk' = M.brk /\ heap_listp' = M.hlp]_vars

\* calloc(3, 3) has just returned a block taken from the free list whose
\* first 9 bytes are zero and whose tenth byte still holds what was there
C17_Witness ==
    /\ last.op = "calloc" /\ last.ret # NULL /\ last.a = 9
    /\ last.reqs = <<>>
    /\ \A i \in 0 .. 8 : GetByte(Cur, last.ret + i) = 0
    /\ GetByte(Cur, last.ret + 9) # 0

\* H and the state after the step hold the same memory, break and heap_listp
SameHeapAfter(H) ==
    /\ mem' = H.mem
    /\ mem_brk' = H.brk
    /\ heap_listp' = H.hlp

\* C18: realloc(p, 0), p live or NULL, returns NULL and leaves the heap that
\* free(p) leaves from the same state (for p live its block lies in a free
\* block and the client no longer holds it); realloc(NULL, size), size > 0,
\* returns what malloc(size) returns from the same state and leaves the
\* heap malloc(size) leaves.
C18_ReallocDelegates ==
    [][(last'.op = "realloc" /\ calls' = calls + 1) =>
        LET p == last'.p
            size == last'.a
        IN  /\ size = 0 =>
                  /\ last'.ret = NULL
                  /\ SameHeapAfter(free(Cur, p))
                  /\ p # NULL =>
                        /\ p \notin DOMAIN live'
                        /\ \E bp \in FreeBlocks(Cur') :
                              /\ bp <= p
                              /\ p + GET_SIZE(Cur, HDRP(p))
                                    <= bp + GET_SIZE(Cur', HDRP(bp))
                  /\ p = NULL => (mem' = mem /\ live' = live)
            /\ (size > 0 /\ p = NULL) =>
                  /\ last'.ret = malloc(Cur, size).ret
                  /\ SameHeapAfter(malloc(Cur, size).H)
                  /\ last'.reqs = malloc(Cur, size).H.reqs
                  /\ last'.ret # NULL =>
                        (last'.ret \in DOMAIN live' /\ ~ IsFree(Cur', last'.ret))]_vars

\* realloc(p, 0) has just released a live block next to another live one
C18_Witness ==
    /\ last.op = "realloc" /\ last.a = 0 /\ last.p # NULL
    /\ last.ret = NULL
    /\ IsFree(Cur, last.p)
    /\ DOMAIN live # {}

\* some growth request of the sequence reqs, issued in order on an empty
\* region, does not fit in the region
RECURSIVE Refused(_, _)
Refused(reqs, brk) ==
    IF reqs = <<>> THEN FALSE
    ELSE IF brk + Head(reqs) > mem_max_addr THEN TRUE
    ELSE Refused(Tail(reqs), brk + Head(reqs))

\* C19: mm_init on the emptied region returns -1 exactly when memlib refused
\* one of its growth requests and 0 otherwise; after a return of 0 the chain
\* is the prologue, one free block of CHUNKSIZE bytes and the epilogue, that
\* block is the only member of the class list of size 256 and the other 13
\* lists are empty, whatever the region's words and heap_listp held before.
C19_InitEstablishesHeap ==
    [][(last'.op = "mm_init" /\ (phase = "start" \/ calls' = calls + 1)) =>
        LET H  == Cur'
            ch == Chain(H)
            b  == H.hlp + DSIZE
            L  == Lists(H)
            C  == CHOOSE c \in Classes : HeadOf(H, c) = get_listp(H, CHUNKSIZE)
        IN  /\ last'.ret \in {0, -1}
            /\ (last'.ret = -1) <=> Refused(last'.reqs, 0)
            /\ (last'.ret = -1) <=> (phase' = "initfailed")
            /\ last'.ret = 0 =>
                  /\ ch.ok
                  /\ ch.blocks = <<H.hlp, b>>
                  /\ GET(H, HDRP(H.hlp)) = PACK(DSIZE, 1)
                  /\ GET(H, FTRP(H, H.hlp)) = PACK(DSIZE, 1)
                  /\ GET(H, HDRP(b)) = PACK(CHUNKSIZE, 0)
                  /\ GET(H, FTRP(H, b)) = PACK(CHUNKSIZE, 0)
                  /\ ch.end = b + CHUNKSIZE
                  /\ GET(H, HDRP(ch.end)) = PACK(0, 1)
                  /\ HDRP(ch.end) = H.brk - WSIZE
                  /\ \A c \in Classes :
                        /\ L[c].ok
                        /\ L[c].members = IF c = C THEN <<b>> ELSE <<>>
                  /\ GET_PRED(H, b) = NULL]_vars

\* mm_init has just rebuilt the heap over a region that earlier calls left
\* with client data and block headers inside what is now the free block
C19_Witness ==
    /\ last.op = "mm_init" /\ last.ret = 0 /\ calls >= 3
    /\ FreeBlocks(Cur) = {heap_listp + DSIZE}
    /\ \E w \in (heap_listp + 2 * DSIZE) \div 4 .. (heap_listp + CHUNKSIZE) \div 4 - 1 :
          mem[w] \notin InitWords

\* C20: a call of mm_checkheap returns, has printed every block of the
\* chain from the first block to the epilogue in chain order and, for each
\* of the 14 classes, the members of its list once each in list order, and
\* has changed no word of the heap.
C20_CheckHeapVisitsAll ==
    [][(last'.op = "mm_checkheap" /\ calls' = calls + 1) =>
        /\ phase' = "ready"
        /\ last'.out.blocks = Chain(Cur).blocks
        /\ Len(last'.out.lists) = CLASS_CNT
        /\ \A c \in Classes :
              last'.out.lists[c + 1] = Lists(Cur)[c].members
        /\ mem' = mem /\ mem_brk' = mem_brk /\ heap_listp' = heap_listp]_vars

\* adjusted sizes find_fit is probed with: every multiple of 8 from 16 to 328
ProbeSizes == {DSIZE * k : k \in 2 .. 41}

\* C23: in every heap state the public calls leave, find_fit(asize) is NULL
\* exactly when no free block has asize bytes, and otherwise is a free block
\* whose size is the least among the free blocks of asize bytes or more.
C23_FindFitIsBestFit ==
    HeapUp =>
        LET FB == FreeBlocks(Cur) IN
        \A asize \in ProbeSizes :
            LET r    == find_fit(Cur, asize)
                fits == {bp \in FB : GET_SIZE(Cur, HDRP(bp)) >= asize}
            IN  /\ (r = NULL) <=> (fits = {})
                /\ r # NULL =>
                      /\ r \in fits
                      /\ \A bp \in fits :
                            GET_SIZE(Cur, HDRP(r)) <= GET_SIZE(Cur, HDRP(bp))

\* two free blocks of different sizes sit in one class list, the smaller one
\* at the higher address, and both fit a request
C23_Witness ==
    /\ phase = "ready"
    /\ \E c \in Classes :
          LET m == ClassList(Cur, c).members IN
          /\ Len(m) >= 2
          /\ GET_SIZE(Cur, HDRP(m[1])) < GET_SIZE(Cur, HDRP(m[2]))
          /\ m[1] > m[2]
          /\ find_fit(Cur, GET_SIZE(Cur, HDRP(m[1]))) = m[1]

\* C24: after every public call each class list is a well-formed doubly
\* linked list in ascending size order: the walk from the head ends at NULL
\* without meeting a block twice, sizes never decrease along it, the first
\* member's predecessor is NULL and every other member's predecessor is the
\* member before it.
C24_ListsWellFormed ==
    HeapUp =>
        LET L == Lists(Cur) IN
        \A c \in Classes :
            LET m == L[c].members IN
            /\ L[c].ok
            /\ \A i, j \in 1 .. Len(m) : i # j => m[i] # m[j]
            /\ \A i \in 1 .. Len(m) - 1 :
                  GET_SIZE(Cur, HDRP(m[i])) <= GET_SIZE(Cur, HDRP(m[i + 1]))
            /\ \A i \in 1 .. Len(m) :
                  GET_PRED(Cur, m[i]) = IF i = 1 THEN NULL ELSE m[i - 1]

\* some class list has two members of different sizes
C24_Witness ==
    /\ phase = "ready"
    /\ \E c \in Classes :
          LET m == ClassList(Cur, c).members IN
          /\ Len(m) >= 2
          /\ GET_SIZE(Cur, HDRP(m[1])) < GET_SIZE(Cur, HDRP(m[2]))
          /\ GET_PRED(Cur, m[2]) = m[1]

\* the heap malloc places a request of asize bytes in: the heap as it is when
\* a free block fits, the grown heap otherwise
PlacedIn(H, asize) ==
    IF find_fit(H, asize) # NULL THEN H
    ELSE extend_heap(H, MAX(asize, CHUNKSIZE) \div WSIZE).H

\* the number of members of all class lists
ListEntries(H) ==
    LET L == Lists(H) IN
    Cardinality({<<c, i>> \in Classes \X (1 .. 8) : i <= Len(L[c].members)})

\* C25: a successful malloc of adjusted size a that chose a free block of
\* size c leaves, when c - a >= 16, an allocated block of size a followed by
\* a free block of size c - a that is a member of the class list of c - a;
\* otherwise it leaves the whole block of size c allocated and the lists
\* hold one entry less (the chosen block) and no new one.  The returned
\* block has size a or a + 8.
C25_PlaceSplits ==
    [][(last'.op = "malloc" /\ last'.ret # NULL /\ calls' = calls + 1) =>
        LET a   == adjust(last'.a)
            E   == PlacedIn(Cur, a)
            bp  == last'.ret
            c   == GET_SIZE(E, HDRP(bp))
            got == GET_SIZE(Cur', HDRP(bp))
        IN  /\ bp \in FreeBlocks(E)
            /\ GET_ALLOC(Cur', HDRP(bp)) = 1
            /\ got \in {a, a + DSIZE}
            /\ IF c - a >= 2 * DSIZE
               THEN /\ got = a
                    /\ bp + a \in FreeBlocks(Cur')
                    /\ GET_SIZE(Cur', HDRP(bp + a)) = c - a
                    /\ \E k \in Classes :
                          /\ HeadOf(Cur', k) = get_listp(Cur', c - a)
                          /\ \E i \in 1 .. Len(ClassList(Cur', k).members) :
                                ClassList(Cur', k).members[i] = bp + a
                    /\ ListEntries(Cur') = ListEntries(E)
               ELSE /\ got = c
                    /\ ListEntries(Cur') = ListEntries(E) - 1
                    /\ FreeBlocks(Cur') = FreeBlocks(E) \ {bp}]_vars

\* malloc has just split a block: a free block follows the returned one
C25_Witness ==
    /\ last.op = "malloc" /\ last.ret # NULL
    /\ GET_SIZE(Cur, HDRP(last.ret)) = adjust(last.a)
    /\ NEXT_BLKP(Cur, last.ret) \in FreeBlocks(Cur)

\* C26: when malloc grows the heap successfully by want bytes, the new
\* region forms one free block with the free block that ended at the old
\* break, if there was one; the request is placed at the start of that
\* block, whose size is at least the adjusted size, and that block is what
\* find_fit returns for the adjusted size in the grown heap.
C26_GrowthMergesAndFits ==
    [][(last'.op = "malloc" /\ last'.ret # NULL /\ Len(last'.reqs) = 1
            /\ calls' = calls + 1) =>
        LET a     == adjust(last'.a)
            want  == last'.reqs[1]
            E     == extend_heap(Cur, want \div WSIZE).H
            ch    == Chain(Cur).blocks
            prev  == ch[Len(ch)]
            merge == Len(ch) >= 2 /\ IsFree(Cur, prev)
            start == IF merge THEN prev ELSE mem_brk
            total == IF merge THEN GET_SIZE(Cur, HDRP(prev)) + want ELSE want
            bp    == last'.ret
        IN  /\ start \in FreeBlocks(E)
            /\ GET_SIZE(E, HDRP(start)) = total
            /\ NEXT_BLKP(E, start) = Chain(E).end
            /\ bp = start
            /\ bp = find_fit(E, a)
            /\ GET_SIZE(E, HDRP(bp)) >= a
            /\ GET_ALLOC(Cur', HDRP(bp)) = 1
            /\ \/ GET_SIZE(Cur', HDRP(bp)) = total
               \/ /\ GET_SIZE(Cur', HDRP(bp)) = a
                  /\ bp + a \in FreeBlocks(Cur')
                  /\ GET_SIZE(Cur', HDRP(bp + a)) = total - a]_vars

\* malloc has just grown the heap and placed the request in a block that
\* starts before the old break: the new region was merged with a free block
C26_Witness ==
    /\ last.op = "malloc" /\ last.ret # NULL
    /\ Len(last.reqs) = 1
    /\ last.ret < mem_brk - last.reqs[1]

\* the word indexes of the block at bp: header, payload and footer
BlockWords(H, bp) ==
    (HDRP(bp) \div 4) .. ((HDRP(bp) + GET_SIZE(H, HDRP(bp)) - 1) \div 4)

\* C28: after every step the blocks of the live pointers are allocated
\* blocks of the chain, large enough for the bytes requested, and no two
\* share a word; and a pointer that is live before and after a step other
\* than the client's own write through it keeps every word of its block:
\* header, payload and footer.
C28_LiveAllocationsIsolated ==
    [][HeapUp' =>
        /\ \A p \in DOMAIN live' :
              /\ p \in Inner(Cur')
              /\ GET_ALLOC(Cur', HDRP(p)) = 1
              /\ GET_SIZE(Cur', HDRP(p)) >= live'[p] + DSIZE
              /\ GET(Cur', FTRP(Cur', p)) = GET(Cur', HDRP(p))
        /\ \A p, q \in DOMAIN live' :
              p # q => BlockWords(Cur', p) \cap BlockWords(Cur', q) = {}
        /\ \A p \in DOMAIN live \cap DOMAIN live' :
              ~ (last'.op = "write" /\ last'.p = p /\ calls' = calls + 1) =>
                  /\ BlockWords(Cur', p) = BlockWords(Cur, p)
                  /\ \A w \in BlockWords(Cur, p) : mem'[w] = mem[w]]_vars

\* a free call has just merged the freed block with the free block after
\* it (the merged block is larger than any block malloc hands out for the
\* largest request smaller than it) while the block after that one is live
C28_Witness ==
    /\ phase = "ready"
    /\ last.op = "free" /\ last.p # NULL
    /\ last.p \in FreeBlocks(Cur)
    /\ GET_SIZE(Cur, HDRP(last.p)) \in {112, 248}
    /\ NEXT_BLKP(Cur, last.p) \in DOMAIN live

\* ------------------------------------------------- malloc's size adjustment
\* how far from 0 and from 2^w the malloc arguments under study lie
SizeSpan == 64

\* malloc arguments: 1 .. SizeSpan and 2^w - SizeSpan .. 2^w - 1
SizeInputs == (1 .. SizeSpan) \cup ((0 - SizeSpan) .. (0 - 1))

\* the allocator before mm_init, with no region behind it
HeapIdle ==
    /\ mem_max_addr = 0
    /\ \E w \in InitWords : mem = [i \in 0 .. (mem_max_addr \div 4) - 1 |-> w]
    /\ mem_brk = 0
    /\ heap_listp = NULL
    /\ phase = "start"
    /\ live = [x \in {} |-> 0]
    /\ last = NoCall
    /\ reuse = NoReuse
    /\ scen = NoScen
    /\ calls = 0

InitAdjust ==
    /\ HeapIdle
    /\ ProxyIdle
    /\ \E n \in SizeInputs : probe = [NoProbe EXCEPT !.size = n]

\* malloc(size), size > 0, computes asize
AdjustSize ==
    /\ ~ probe.done
    /\ probe' = [probe EXCEPT !.done = TRUE, !.asize = adjust(probe.size)]
    /\ UNCHANGED <<heapVars, cache, thr>>

NextAdjust == AdjustSize

SpecAdjust == InitAdjust /\ [][NextAdjust]_vars

\* C27: for every request size n from 1 to the largest size_t value the
\* adjusted size is a multiple of 8, at least 16 and at least n + 8 as
\* numbers (not modulo 2^w), and is max(16, roundUp8(n + 8)): 16 when
\* n <= 8, and otherwise less than 8 above n + 8.
C27_AdjustNeverWraps ==
    probe.done =>
        LET n == probe.size
            a == probe.asize
        IN  /\ a % DSIZE = 0
            /\ ULE(2 * DSIZE, a)
            /\ IF (a < 0) = (n < 0) THEN a - n >= DSIZE ELSE a < 0
            /\ IF ULE(n, DSIZE) THEN a = 2 * DSIZE
               ELSE (a < 0) = (n < 0) /\ a - n < 2 * DSIZE

\* ------------------------------------------------- proxy threads and cache
\* Each step below is one access to the shared cache; ++readcnt and
\* --readcnt are a read and a write (tmp holds the value read), since
\* cache_insert writes readcnt without mutex_readcnt.  A P is taken together
\* with the access after it and a V with the access before it; the sections
\* under mutex_time contain no blocking call and are single steps.

\* the line a thread is working on
Line(t) == cache.cache_lines[thr[t].i]

\* main accepts a connection and the thread starts proxy() for uri u;
\* cache_find begins: P(mutex_time); ++time; V(mutex_time); i = 0
proxy_start(t, u) ==
    /\ thr[t].pc = "idle"
    /\ thr[t].left > 0
    /\ cache' = [cache EXCEPT !.time = @ + 1]
    /\ thr' = [thr EXCEPT ![t] = [Idle(thr[t].left - 1) EXCEPT
                   !.pc = "P_reader", !.fn = "find", !.uri = u]]
    /\ UNCHANGED <<heapVars, probe>>

\* P_reader: P(mutex_readcnt); ++readcnt reads readcnt
P_reader_load(t) ==
    /\ thr[t].pc = "P_reader"
    /\ Line(t).mutex_readcnt > 0
    /\ cache' = [cache EXCEPT !.cache_lines[thr[t].i].mutex_readcnt = @ - 1]
    /\ thr' = [thr EXCEPT ![t].pc = "P_reader_store",
                          ![t].tmp = Line(t).readcnt]
    /\ UNCHANGED <<heapVars, probe>>

\* P_reader: ++readcnt writes readcnt
P_reader_store(t) ==
    /\ thr[t].pc = "P_reader_store"
    /\ cache' = [cache EXCEPT
            !.cache_lines[thr[t].i].readcnt = thr[t].tmp + 1]
    /\ thr' = [thr EXCEPT ![t].pc = "P_reader_test",
                          ![t].tmp = thr[t].tmp + 1]
    /\ UNCHANGED <<heapVars, probe>>

\* the values a test of readcnt after ++readcnt or --readcnt may see: the
\* value in memory, or the value just written when the build keeps it in a
\* register (they differ only when cache_insert wrote readcnt in between)
Seen(t) == {Line(t).readcnt, thr[t].tmp}

\* P_reader: if (readcnt == 1) go on to P(mutex_access); else
\* V(mutex_readcnt) and return
P_reader_test(t) ==
    /\ thr[t].pc = "P_reader_test"
    /\ \E v \in Seen(t) :
          IF v = 1
          THEN /\ thr' = [thr EXCEPT ![t].pc = "P_reader_access",
                                     ![t].tmp = 0]
               /\ UNCHANGED cache
          ELSE /\ cache' = [cache EXCEPT
                       !.cache_lines[thr[t].i].mutex_readcnt = @ + 1]
               /\ thr' = [thr EXCEPT ![t].pc = "reading", ![t].tmp = 0]
    /\ UNCHANGED <<heapVars, probe>>

\* P_reader: P(mutex_access); V(mutex_readcnt); return
P_reader_access(t) ==
    /\ thr[t].pc = "P_reader_access"
    /\ Line(t).mutex_access > 0
    /\ cache' = [cache EXCEPT
            !.cache_lines[thr[t].i].mutex_access = @ - 1,
            !.cache_lines[thr[t].i].mutex_readcnt = @ + 1]
    /\ thr' = [thr EXCEPT ![t].pc = "reading"]
    /\ UNCHANGED <<heapVars, probe>>

\* cache_find: if (valid && !strcmp(uri, uri)) ... ; then V_reader
find_check(t) ==
    /\ thr[t].pc = "reading" /\ thr[t].fn = "find"
    /\ thr' = [thr EXCEPT ![t].pc = "V_reader",
                          ![t].hit = (Line(t).valid # 0
                                      /\ Line(t).uri = thr[t].uri)]
    /\ UNCHANGED cache
    /\ UNCHANGED <<heapVars, probe>>

\* cache_insert: an empty line ends the scan; otherwise the line with the
\* least last_used_time so far is remembered; then V_reader
insert_check(t) ==
    /\ thr[t].pc = "reading" /\ thr[t].fn = "insert"
    /\ thr' = [thr EXCEPT ![t] =
           IF Line(t).valid = 0
           THEN [@ EXCEPT !.pc = "V_reader", !.hit = TRUE,
                          !.evict_id = thr[t].i]
           ELSE IF Line(t).last_used_time < thr[t].min_last_used_time
           THEN [@ EXCEPT !.pc = "V_reader",
                          !.min_last_used_time = Line(t).last_used_time,
                          !.evict_id = thr[t].i]
           ELSE [@ EXCEPT !.pc = "V_reader"]]
    /\ UNCHANGED cache
    /\ UNCHANGED <<heapVars, probe>>

\* proxy: content = cache_lines[id].content; Rio_writen(clientfd, content);
\* served records the requested uri and what the line held at the read
proxy_serve(t) ==
    /\ thr[t].pc = "reading" /\ thr[t].fn = "serve"
    /\ thr' = [thr EXCEPT ![t].pc = "V_reader",
                          ![t].served = <<[uri |-> thr[t].uri,
                                           valid |-> Line(t).valid,
                                           line_uri |-> Line(t).uri,
                                           content |-> Line(t).content]>>]
    /\ UNCHANGED cache
    /\ UNCHANGED <<heapVars, probe>>

\* V_reader: P(mutex_readcnt); --readcnt reads readcnt
V_reader_load(t) ==
    /\ thr[t].pc = "V_reader"
    /\ Line(t).mutex_readcnt > 0
    /\ cache' = [cache EXCEPT !.cache_lines[thr[t].i].mutex_readcnt = @ - 1]
    /\ thr' = [thr EXCEPT ![t].pc = "V_reader_store",
                          ![t].tmp = Line(t).readcnt]
    /\ UNCHANGED <<heapVars, probe>>

\* V_reader: --readcnt writes readcnt
V_reader_store(t) ==
    /\ thr[t].pc = "V_reader_store"
    /\ cache' = [cache EXCEPT
            !.cache_lines[thr[t].i].readcnt = thr[t].tmp - 1]
    /\ thr' = [thr EXCEPT ![t].pc = "V_reader_test",
                          ![t].tmp = thr[t].tmp - 1]
    /\ UNCHANGED <<heapVars, probe>>

\* where the caller of V_reader goes on
AfterV_reader(r) ==
    IF r.fn = "find"
    THEN IF r.hit THEN [r EXCEPT !.pc = "find_P_writer"]
         ELSE IF r.i + 1 < MAX_OBJECT_CNT
         THEN [r EXCEPT !.pc = "P_reader", !.i = r.i + 1]
         ELSE [r EXCEPT !.pc = "fetch"]
    ELSE IF r.fn = "insert"
    THEN IF r.hit \/ r.i + 1 >= MAX_OBJECT_CNT
         THEN [r EXCEPT !.pc = "insert_P_writer"]
         ELSE [r EXCEPT !.pc = "P_reader", !.i = r.i + 1]
    ELSE [r EXCEPT !.pc = "idle"]

\* V_reader: if (readcnt == 0) V(mutex_access); V(mutex_readcnt); return
V_reader_test(t) ==
    /\ thr[t].pc = "V_reader_test"
    /\ \E v \in Seen(t) :
          cache' = [cache EXCEPT
              !.cache_lines[thr[t].i].mutex_access =
                  IF v = 0 THEN @ + 1 ELSE @,
              !.cache_lines[thr[t].i].mutex_readcnt = @ + 1]
    /\ thr' = [thr EXCEPT ![t] = [AfterV_reader(thr[t]) EXCEPT !.tmp = 0]]
    /\ UNCHANGED <<heapVars, probe>>

\* cache_find on a hit: P_writer(i)
find_P_writer(t) ==
    /\ thr[t].pc = "find_P_writer"
    /\ Line(t).mutex_access > 0
    /\ cache' = [cache EXCEPT !.cache_lines[thr[t].i].mutex_access = @ - 1]
    /\ thr' = [thr EXCEPT ![t].pc = "find_update"]
    /\ UNCHANGED <<heapVars, probe>>

\* cache_find on a hit: last_used_time = time; V_writer(i); return i; proxy
\* goes on with P_reader(id)
find_update(t) ==
    /\ thr[t].pc = "find_update"
    /\ cache' = [cache EXCEPT
            !.cache_lines[thr[t].i].last_used_time = cache.time,
            !.cache_lines[thr[t].i].mutex_access = @ + 1]
    /\ thr' = [thr EXCEPT ![t].pc = "P_reader", ![t].fn = "serve"]
    /\ UNCHANGED <<heapVars, probe>>

\* proxy after cache_find returned -1: the object is fetched from the
\* server; it is inserted when it is smaller than MAX_OBJECT_SIZE
proxy_fetch(t) ==
    /\ thr[t].pc = "fetch"
    /\ \E small \in BOOLEAN :
          thr' = [thr EXCEPT ![t] =
              IF small
              THEN [@ EXCEPT !.pc = "P_reader", !.fn = "insert", !.i = 0,
                             !.hit = FALSE, !.evict_id = -1,
                             !.min_last_used_time = INT_MAX]
              ELSE [@ EXCEPT !.pc = "idle"]]
    /\ UNCHANGED cache
    /\ UNCHANGED <<heapVars, probe>>

\* the line cache_insert writes
Evict(t) == cache.cache_lines[thr[t].evict_id]

\* cache_insert: P_writer(evict_id)
insert_P_writer(t) ==
    /\ thr[t].pc = "insert_P_writer"
    /\ Evict(t).mutex_access > 0
    /\ cache' = [cache EXCEPT
            !.cache_lines[thr[t].evict_id].mutex_access = @ - 1]
    /\ thr' = [thr EXCEPT ![t].pc = "insert_valid"]
    /\ UNCHANGED <<heapVars, probe>>

\* cache_insert: valid = 1; last_used_time = time
insert_valid(t) ==
    /\ thr[t].pc = "insert_valid"
    /\ cache' = [cache EXCEPT
            !.cache_lines[thr[t].evict_id].valid = 1,
            !.cache_lines[thr[t].evict_id].last_used_time = cache.time]
    /\ thr' = [thr EXCEPT ![t].pc = "insert_readcnt"]
    /\ UNCHANGED <<heapVars, probe>>

\* cache_insert: readcnt = 0
insert_readcnt(t) ==
    /\ thr[t].pc = "insert_readcnt"
    /\ cache' = [cache EXCEPT !.cache_lines[thr[t].evict_id].readcnt = 0]
    /\ thr' = [thr EXCEPT ![t].pc = "insert_uri"]
    /\ UNCHANGED <<heapVars, probe>>

\* cache_insert: strcpy(uri, uri)
insert_uri(t) ==
    /\ thr[t].pc = "insert_uri"
    /\ cache' = [cache EXCEPT
            !.cache_lines[thr[t].evict_id].uri = thr[t].uri]
    /\ thr' = [thr EXCEPT ![t].pc = "insert_content"]
    /\ UNCHANGED <<heapVars, probe>>

\* cache_insert: strcpy(content, content); V_writer(evict_id); the content
\* of an object is modelled by the uri it was fetched for
insert_content(t) ==
    /\ thr[t].pc = "insert_content"
    /\ cache' = [cache EXCEPT
            !.cache_lines[thr[t].evict_id].content = thr[t].uri,
            !.cache_lines[thr[t].evict_id].mutex_access = @ + 1]
    /\ thr' = [thr EXCEPT ![t].pc = "idle"]
    /\ UNCHANGED <<heapVars, probe>>

InitCache ==
    /\ HeapIdle
    /\ probe = NoProbe
    /\ cache = cache_init
    /\ thr = [t \in Threads |-> Idle(MaxReqs)]

NextCache ==
    \/ \E t \in Threads, u \in Uris : proxy_start(t, u)
    \/ \E t \in Threads : P_reader_load(t)
    \/ \E t \in Threads : P_reader_store(t)
    \/ \E t \in Threads : P_reader_test(t)
    \/ \E t \in Threads : P_reader_access(t)
    \/ \E t \in Threads : find_check(t)
    \/ \E t \in Threads : insert_check(t)
    \/ \E t \in Threads : proxy_serve(t)
    \/ \E t \in Threads : V_reader_load(t)
    \/ \E t \in Threads : V_reader_store(t)
    \/ \E t \in Threads : V_reader_test(t)
    \/ \E t \in Threads : find_P_writer(t)
    \/ \E t \in Threads : find_update(t)
    \/ \E t \in Threads : proxy_fetch(t)
    \/ \E t \in Threads : insert_P_writer(t)
    \/ \E t \in Threads : insert_valid(t)
    \/ \E t \in Threads : insert_readcnt(t)
    \/ \E t \in Threads : insert_uri(t)
    \/ \E t \in Threads : insert_content(t)

SpecCache == InitCache /\ [][NextCache]_vars

\* the threads inside a reader section of line l: P_reader has returned and
\* V_reader is not yet called
Readers(l) == {t \in Threads : thr[t].pc = "reading" /\ thr[t].i = l}

\* the threads inside a writer section of line l: P_writer has returned and
\* V_writer has not
Writers(l) ==
    {t \in Threads :
        \/ thr[t].pc = "find_update" /\ thr[t].i = l
        \/ /\ thr[t].pc \in {"insert_valid", "insert_readcnt", "insert_uri",
                             "insert_content"}
           /\ thr[t].evict_id = l}

\* C21: for every line, at most one thread is inside a writer section of it
\* and then no thread is inside a reader section of it.
C21_WritersExclude ==
    \A l \in Lines :
        /\ Cardinality(Writers(l)) <= 1
        /\ Writers(l) # {} => Readers(l) = {}

\* C22: whenever a thread reads line id's content under P_reader after
\* cache_find(uri) returned id, the line is valid and holds the requested
\* uri and the content inserted for it; and whenever cache_find passes a
\* line without a hit, that line was not a valid line with the requested uri
\* when it was examined.
C22_ServedMatchesRequest ==
    [][\A t \in Threads :
          /\ (thr[t].pc = "reading" /\ thr[t].fn = "serve"
                /\ thr'[t].pc = "V_reader") =>
                /\ Line(t).valid # 0
                /\ Line(t).uri = thr[t].uri
                /\ Line(t).content = thr[t].uri
                /\ thr'[t].served[1].content = thr[t].uri
          /\ (thr[t].pc = "reading" /\ thr[t].fn = "find"
                /\ thr'[t].pc = "V_reader" /\ ~ thr'[t].hit) =>
                ~ (Line(t).valid # 0 /\ Line(t).uri = thr[t].uri)]_vars

\* a thread that has begun a call it has not returned from, or that has
\* connections left to serve
Unfinished(t) == thr[t].pc # "idle" \/ thr[t].left > 0

\* a thread waiting in P on a semaphore that is 0
Blocked(t) ==
    \/ thr[t].pc \in {"P_reader", "V_reader"} /\ Line(t).mutex_readcnt = 0
    \/ thr[t].pc \in {"P_reader_access", "find_P_writer"}
          /\ Line(t).mutex_access = 0
    \/ thr[t].pc = "insert_P_writer" /\ Evict(t).mutex_access = 0

\* the threads using line l: from the call of P_reader to the return of
\* V_reader, and from the call of P_writer to the return of V_writer
Using(l) ==
    {t \in Threads :
        \/ /\ thr[t].pc \in {"P_reader", "P_reader_store", "P_reader_test",
                             "P_reader_access", "reading", "V_reader",
                             "V_reader_store", "V_reader_test",
                             "find_P_writer", "find_update"}
           /\ thr[t].i = l
        \/ /\ thr[t].pc \in {"insert_P_writer", "insert_valid",
                             "insert_readcnt", "insert_uri", "insert_content"}
           /\ thr[t].evict_id = l}

\* C29: no reachable state is a deadlock (when some thread is unfinished,
\* some thread can take a step), and the mutex_access of a line no thread is
\* using is released.
C29_NoDeadlock ==
    /\ (\E t \in Threads : Unfinished(t)) =>
           (\E t \in Threads : Unfinished(t) /\ ~ Blocked(t))
    /\ \A l \in Lines : Using(l) = {} => cache.cache_lines[l].mutex_access = 1

\* the threads that have executed the increment of P_reader on line l and
\* not yet the decrement of V_reader
Counted(l) ==
    {t \in Threads :
        /\ thr[t].pc \in {"P_reader_test", "P_reader_access", "reading",
                          "V_reader", "V_reader_store"}
        /\ thr[t].i = l}

\* C30: for every line, readcnt is never negative and equals the number of
\* threads that have executed the increment in P_reader and not yet the
\* matching decrement in V_reader on that line.
C30_ReadcntCountsReaders ==
    \A l \in Lines :
        /\ cache.cache_lines[l].readcnt >= 0
        /\ cache.cache_lines[l].readcnt = Cardinality(Counted(l))

\* the lines that are invalid
Invalid == {l \in Lines : cache.cache_lines[l].valid = 0}

\* the uris held by valid lines
Cached == {cache.cache_lines[l].uri : l \in Lines \ Invalid}

\* C31: when cache_insert begins to write line evict_id (valid = 1 under
\* P_writer), that line is invalid if any line is invalid, and if every line
\* is valid its last_used_time is the least of all lines; and once two
\* threads have each served one connection that ended in an insert, for
\* different uris, on the cache that started empty, both uris are cached.
C31_InsertEvictsRightLine ==
    [][/\ \A t \in Threads :
             (thr[t].pc = "insert_valid" /\ thr'[t].pc = "insert_readcnt") =>
                 /\ Invalid # {} => thr[t].evict_id \in Invalid
                 /\ Invalid = {} =>
                       \A l \in Lines :
                           Evict(t).last_used_time
                               <= cache.cache_lines[l].last_used_time
       /\ (/\ \A t \in Threads :
                /\ thr'[t].pc = "idle" /\ thr'[t].fn = "insert"
                /\ thr'[t].left = MaxReqs - 1
           /\ \A t, u \in Threads : t # u => thr'[t].uri # thr'[u].uri)
          => {thr'[t].uri : t \in Threads} \subseteq Cached']_vars

====
